---- MODULE Spec2Model ----
(***************************************************************************)
(* Model of the UBX codec of ublox_gps/core.py (Python 2): the descriptor  *)
(* types and their constructors, Message.parse with its repeat-count       *)
(* search, alone and called by two readers at once, and the stream framer  *)
(* Parser.receive_from with Parser._read_until and the Fletcher checksum.  *)
(* Byte strings are sequences of 0..255; str(tuple) is the Python 2 text   *)
(* of the tuple, as a sequence of character codes.                         *)
(***************************************************************************)
EXTENDS Integers, Sequences, FiniteSets, TLC

(***************************************************************************)
(* Bounds of the model.                                                    *)
(***************************************************************************)
\* zero-byte reads one receive_from call is followed through
MaxEmptyReads == 2
\* receive_from calls followed on one byte source
MaxCalls == 2
\* longest payload handed to Message.parse
MaxPayloadLen == 14
\* longest payload handed to Message.parse by readers decoding at the same time
MaxReaderLen == 6
\* longest byte string handed to _generate_fletcher_checksum directly
MaxBytes == 3
\* Message.parse calls followed on one set of schema objects
MaxParses == 2
\* set_packet calls from outside followed on one UbloxGps
MaxStores == 2

(***************************************************************************)
(* Python 2 built-ins used by the code.                                    *)
(***************************************************************************)
Min(a, b) == IF a < b THEN a ELSE b

\* the last n items of s (s[-n:], n > 0)
Tail_n(s, n) == IF Len(s) <= n THEN s ELSE SubSeq(s, Len(s) - n + 1, Len(s))

\* decimal text of a natural number, as character codes
RECURSIVE DecStr(_)
DecStr(n) == IF n < 10 THEN <<48 + n>> ELSE DecStr(n \div 10) \o <<48 + (n % 10)>>

\* str(t) of a tuple of integers: "(a, b, ...)", "(a,)" for one item
RECURSIVE JoinDec(_)
JoinDec(t) ==
    IF Len(t) = 0 THEN <<>>
    ELSE IF Len(t) = 1 THEN DecStr(t[1])
    ELSE DecStr(t[1]) \o <<44, 32>> \o JoinDec(Tail(t))

StrOfTuple(t) ==
    <<40>> \o JoinDec(t) \o (IF Len(t) = 1 THEN <<44>> ELSE <<>>) \o <<41>>

\* stream.read(n) on a source holding s, with p bytes consumed so far
Read(s, p, n) == SubSeq(s, p + 1, Min(p + n, Len(s)))

(***************************************************************************)
(* struct: native size and alignment of the format characters.            *)
(***************************************************************************)
FmtSize(c) ==
    CASE c \in {"B", "b", "c", "s", "x"} -> 1
      [] c \in {"H", "h"} -> 2
      [] c \in {"I", "i", "f"} -> 4
      [] c = "d" -> 8

FmtAlign(c) == IF c = "s" THEN 1 ELSE FmtSize(c)

AlignUp(off, a) == ((off + a - 1) \div a) * a

\* offset after the items of a format, starting from offset off
RECURSIVE calcsize_from(_, _)
calcsize_from(fmt, off) ==
    IF fmt = <<>> THEN off
    ELSE calcsize_from(Tail(fmt),
                       AlignUp(off, FmtAlign(fmt[1].c)) + fmt[1].n * FmtSize(fmt[1].c))

\* struct.calcsize without a byte-order prefix: native alignment
calcsize(fmt) == calcsize_from(fmt, 0)

\* little-endian unsigned value of a byte string
RECURSIVE LEValue(_)
LEValue(bs) == IF bs = <<>> THEN 0 ELSE bs[1] + 256 * LEValue(Tail(bs))

\* 256 ^ k
RECURSIVE Pow256(_)
Pow256(k) == IF k = 0 THEN 1 ELSE 256 * Pow256(k - 1)

\* two's-complement value of a little-endian byte string
SignedLEValue(bs) ==
    LEValue(SubSeq(bs, 1, Len(bs) - 1))
    + Pow256(Len(bs) - 1) * (IF bs[Len(bs)] >= 128 THEN bs[Len(bs)] - 256 ELSE bs[Len(bs)])

\* the value struct.unpack gives for the bytes bs read as format character c
UnpackOne(c, bs) ==
    CASE c \in {"B", "H", "I"} -> LEValue(bs)
      [] c \in {"b", "h", "i"} -> SignedLEValue(bs)
      [] c \in {"f", "d"} -> [bits |-> bs]
      [] OTHER -> bs

\* the values of n items of character c starting at offset off (0-based)
RECURSIVE UnpackItems(_, _, _, _)
UnpackItems(c, n, data, off) ==
    IF n = 0 THEN <<>>
    ELSE <<UnpackOne(c, SubSeq(data, off + 1, off + FmtSize(c)))>>
         \o UnpackItems(c, n - 1, data, off + FmtSize(c))

\* the values of one format item placed at the aligned offset o
UnpackItem(item, data, o) ==
    CASE item.c = "x" -> <<>>
      [] item.c = "s" -> <<SubSeq(data, o + 1, o + item.n)>>
      [] OTHER -> UnpackItems(item.c, item.n, data, o)

\* struct.unpack(fmt, data) for len(data) = calcsize(fmt)
RECURSIVE unpack_from(_, _, _)
unpack_from(fmt, data, off) ==
    IF fmt = <<>> THEN <<>>
    ELSE UnpackItem(fmt[1], data, AlignUp(off, FmtAlign(fmt[1].c)))
         \o unpack_from(Tail(fmt), data,
                        AlignUp(off, FmtAlign(fmt[1].c)) + fmt[1].n * FmtSize(fmt[1].c))

unpack(fmt, data) == unpack_from(fmt, data, 0)

(***************************************************************************)
(* Descriptors.  A schema object is a record; RepeatedBlock.repeat, the    *)
(* one attribute the code assigns after construction, is state (repeat).   *)
(***************************************************************************)
Field__types__ ==
    [U1 |-> "B", I1 |-> "b", U2 |-> "H", I2 |-> "h", U4 |-> "I", I4 |-> "i",
     R4 |-> "f", R8 |-> "d", C |-> "c", S |-> "s"]

BitField__types__ == [X1 |-> "B", X2 |-> "H", X4 |-> "I"]

PadByte(repeat_) == [d |-> "PadByte", repeat |-> repeat_]
Field(name_, type_, len_) == [d |-> "Field", name |-> name_, type |-> type_, len |-> len_]
Flag(name_, start_, stop_) == [d |-> "Flag", name |-> name_, start |-> start_, stop |-> stop_]
BitField(name_, type_, subfields_) ==
    [d |-> "BitField", name |-> name_, type |-> type_, subfields |-> subfields_]
RepeatedBlock(name_, fields_) == [d |-> "RepeatedBlock", name |-> name_, fields |-> fields_]
Message(id_, name_, fields_) == [id |-> id_, name |-> name_, fields |-> fields_]
Cls(id_, name_, messages_) == [id |-> id_, name |-> name_, messages |-> messages_]

\* s repeated n times
RECURSIVE Times(_, _)
Times(s, n) == IF n <= 0 THEN <<>> ELSE s \o Times(s, n - 1)

PadByte_fmt(f) == Times(<<[n |-> 1, c |-> "x"]>>, f.repeat + 1)

Field_fmt(f) == <<[n |-> IF f.len > 1 THEN f.len ELSE 1, c |-> Field__types__[f.type]]>>

BitField_fmt(f) == <<[n |-> 1, c |-> BitField__types__[f.type]]>>

\* ''.join of the formats of a list of descriptors other than RepeatedBlock
RECURSIVE InnerFmt(_)
InnerFmt(fields) ==
    IF fields = <<>> THEN <<>>
    ELSE (CASE fields[1].d = "PadByte" -> PadByte_fmt(fields[1])
            [] fields[1].d = "Field" -> Field_fmt(fields[1])
            [] fields[1].d = "BitField" -> BitField_fmt(fields[1]))
         \o InnerFmt(Tail(fields))

\* RepeatedBlock.fmt repeating the unit repeat times, not repeat + 1
RepeatedBlock_fmt_repeat(f, rep) == Times(InnerFmt(f.fields), rep)

\* RepeatedBlock.fmt
RepeatedBlock_fmt(f, rep) == Times(InnerFmt(f.fields), rep + 1)

\* Message.fmt with the RepeatedBlock's repeat attribute equal to rep
RECURSIVE Message_fmt_of(_, _)
Message_fmt_of(fields, rep) ==
    IF fields = <<>> THEN <<>>
    ELSE (IF fields[1].d = "RepeatedBlock" THEN RepeatedBlock_fmt(fields[1], rep)
          ELSE InnerFmt(<<fields[1]>>))
         \o Message_fmt_of(Tail(fields), rep)

Message_fmt(m, rep) == Message_fmt_of(m.fields, rep)

\* Message._repeated_block is not None
HasRepeatedBlock(m) == \E i \in 1..Len(m.fields) : m.fields[i].d = "RepeatedBlock"

(***************************************************************************)
(* Field-level decode over the iterator of unpacked values: vals is the    *)
(* unpacked tuple, cur the number of values already taken.  A result is    *)
(* [err, out, cur]: err is "" or the exception raised, out the decoded     *)
(* (name, value) pairs in order.                                           *)
(***************************************************************************)
\* The integers of the bit operations are words of WordBits binary digits,
\* digit i being the bit of weight 2 ^ (i - 1): the words of the X1, X2 and
\* X4 formats, which reach 2 ^ 32 - 1.
WordBits == 32

\* the word of a natural number below 2 ^ 31
Bin(n) == [i \in 1..WordBits |-> IF i = WordBits THEN 0 ELSE (n \div (2 ^ (i - 1))) % 2]

\* the natural number of the first k digits of a word
RECURSIVE NumUpTo(_, _)
NumUpTo(w, k) == IF k = 0 THEN 0 ELSE NumUpTo(w, k - 1) + (IF w[k] = 1 THEN 2 ^ (k - 1) ELSE 0)

\* the natural number of a word below 2 ^ 31
Num(w) == NumUpTo(w, WordBits - 1)

\* a & b
BitAnd(a, b) == [i \in 1..WordBits |-> a[i] * b[i]]

\* a >> n
ShiftRight(a, n) == [i \in 1..WordBits |-> IF i + n <= WordBits THEN a[i + n] ELSE 0]

\* Flag_mask with the stop bit included
Flag_mask_inclusive(start, stop) ==
    [i \in 1..WordBits |-> IF start <= i - 1 /\ i - 1 <= stop THEN 1 ELSE 0]

\* Flag._mask: 0x01 << i or-ed for i in xrange(start, stop)
Flag_mask(start, stop) ==
    [i \in 1..WordBits |-> IF start <= i - 1 /\ i - 1 < stop THEN 1 ELSE 0]

\* Flag.parse on a word: (value & self._mask) >> self._start
Flag_parse_word(f, w) == <<f.name, ShiftRight(BitAnd(w, Flag_mask(f.start, f.stop)), f.start)>>

\* Flag.parse on a value below 2 ^ 31
Flag_parse(f, value) == <<f.name, Num(Flag_parse_word(f, Bin(value))[2])>>

\* resp[0].decode('ascii').rstrip('\0')
RECURSIVE RStripNul(_)
RStripNul(bs) ==
    IF bs # <<>> /\ bs[Len(bs)] = 0 THEN RStripNul(SubSeq(bs, 1, Len(bs) - 1)) ELSE bs

\* results of a decode step
Done(out_, cur_) == [err |-> "", out |-> out_, cur |-> cur_]
Raised(err_, cur_) == [err |-> err_, out |-> <<>>, cur |-> cur_]

\* the result of a step followed by the result of the steps after it
Join(r, rest) == [err |-> rest.err, out |-> r.out \o rest.out, cur |-> rest.cur]

\* Field.parse, len being 1 for the kind S and self._len otherwise, resp
\* the len values taken from the iterator
Field_parse_resp(f, len, resp, cur) ==
    IF f.type = "R8" /\ len > 0 THEN Raised("NameError", cur + len)
    ELSE IF f.type = "S" /\ \E i \in 1..Len(resp[1]) : resp[1][i] > 127
    THEN Raised("UnicodeDecodeError", cur + len)
    ELSE Done(<<<<f.name, IF f.type = "S" THEN RStripNul(resp[1])
                           ELSE IF len = 1 THEN resp[1] ELSE resp>>>>,
              cur + (IF len > 0 THEN len ELSE 0))

Field_parse_len(f, len, vals, cur) ==
    IF cur + len > Len(vals) THEN Raised("StopIteration", Len(vals))
    ELSE Field_parse_resp(f, len, SubSeq(vals, cur + 1, cur + len), cur)

Field_parse(f, vals, cur) == Field_parse_len(f, IF f.type = "S" THEN 1 ELSE f.len, vals, cur)

BitField_parse(f, vals, cur) ==
    IF cur + 1 > Len(vals) THEN Raised("StopIteration", Len(vals))
    ELSE Done(<<<<f.name, [i \in 1..Len(f.subfields) |->
                              Flag_parse(f.subfields[i], vals[cur + 1])]>>>>,
              cur + 1)

\* f.parse(it) for a descriptor other than RepeatedBlock; PadByte's
\* (None, None) is dropped by the caller's "if k is not None"
Descriptor_parse(f, vals, cur) ==
    CASE f.d = "PadByte" -> Done(<<>>, cur)
      [] f.d = "Field" -> Field_parse(f, vals, cur)
      [] f.d = "BitField" -> BitField_parse(f, vals, cur)

\* [f.parse(it) for f in fields] for descriptors other than RepeatedBlock
RECURSIVE InnerParse(_, _, _)
RECURSIVE InnerParse_rest(_, _, _)
InnerParse_rest(r, fields, vals) ==
    IF r.err # "" THEN r ELSE Join(r, InnerParse(fields, vals, r.cur))

InnerParse(fields, vals, cur) ==
    IF fields = <<>> THEN Done(<<>>, cur)
    ELSE InnerParse_rest(Descriptor_parse(fields[1], vals, cur), Tail(fields), vals)

\* one named tuple out of the pairs of one pass
AsTuple(r) == [err |-> r.err, out |-> <<r.out>>, cur |-> r.cur]

\* RepeatedBlock.parse: one named tuple per pass, n passes left
RECURSIVE RepeatedBlock_passes(_, _, _, _)
RECURSIVE RepeatedBlock_rest(_, _, _, _)
RepeatedBlock_rest(r, f, vals, n) ==
    IF r.err # "" THEN r ELSE Join(r, RepeatedBlock_passes(f, vals, r.cur, n))

RepeatedBlock_passes(f, vals, cur, n) ==
    IF n <= 0 THEN Done(<<>>, cur)
    ELSE RepeatedBlock_rest(AsTuple(InnerParse(f.fields, vals, cur)), f, vals, n - 1)

\* (self.name, resp)
Named(name_, r) == [err |-> r.err, out |-> <<<<name_, r.out>>>>, cur |-> r.cur]

RepeatedBlock_parse(f, vals, cur, rep) ==
    Named(f.name, RepeatedBlock_passes(f, vals, cur, rep + 1))

\* [f.parse(it) for f in self._fields] of Message.parse
RECURSIVE Message_fields_parse(_, _, _, _)
RECURSIVE Message_fields_rest(_, _, _, _)
Message_fields_rest(r, fields, vals, rep) ==
    IF r.err # "" THEN r ELSE Join(r, Message_fields_parse(fields, vals, r.cur, rep))

Message_fields_parse(fields, vals, cur, rep) ==
    IF fields = <<>> THEN Done(<<>>, cur)
    ELSE Message_fields_rest(IF fields[1].d = "RepeatedBlock"
                             THEN RepeatedBlock_parse(fields[1], vals, cur, rep)
                             ELSE Descriptor_parse(fields[1], vals, cur),
                             Tail(fields), vals, rep)

(***************************************************************************)
(* Message.parse.                                                          *)
(***************************************************************************)
\* the tests of one pass of the while-loop of Message.parse on fmt_len:
\* "break", "raise" (ValueError) or "inc" (repeat += 1)
ParseLoopTest(fmt_len, payload_len, has_block) ==
    IF fmt_len = payload_len THEN "break"
    ELSE IF fmt_len > payload_len THEN "raise"
    ELSE IF has_block THEN "inc"
    ELSE "raise"

\* one pass of the while-loop, the repeat attribute being rep
ParseLoopStep(m, payload_len, rep) ==
    ParseLoopTest(calcsize(Message_fmt(m, rep)), payload_len, HasRepeatedBlock(m))

\* self._nt(**dict(...)) returned with the name, or the exception raised
AsRecord(m, r) ==
    IF r.err # "" THEN [kind |-> r.err, at |-> "parse"]
    ELSE [kind |-> "Record", name |-> m.name, nt |-> r.out]

\* the tail of Message.parse once the loop has left repeat = rep
Message_decode(m, payload, rep) ==
    AsRecord(m, Message_fields_parse(m.fields, unpack(Message_fmt(m, rep), payload), 0, rep))

\* the while-loop run to its end from repeat = rep; a loop that passes
\* payload_len increments without break or raise has a zero-size unit and
\* never ends
RECURSIVE RepeatSearch(_, _, _)
RECURSIVE RepeatSearch_on(_, _, _, _)
RepeatSearch_on(s, m, payload_len, rep) ==
    IF s = "break" THEN [kind |-> "found", repeat |-> rep]
    ELSE IF s = "raise" THEN [kind |-> "ValueError", repeat |-> rep]
    ELSE IF rep > payload_len THEN [kind |-> "diverges", repeat |-> rep]
    ELSE RepeatSearch(m, payload_len, rep + 1)

RepeatSearch(m, payload_len, rep) ==
    RepeatSearch_on(ParseLoopStep(m, payload_len, rep), m, payload_len, rep)

Message_parse_found(m, payload, s) ==
    IF s.kind = "found" THEN Message_decode(m, payload, s.repeat)
    ELSE [kind |-> s.kind, at |-> "parse"]

Message_parse(m, payload) == Message_parse_found(m, payload, RepeatSearch(m, Len(payload), 0))

\* the repeat attributes rp after Message.parse of m on a payload of payload_len bytes
RepeatAfter(m, payload_len, rp) ==
    IF HasRepeatedBlock(m)
    THEN [rp EXCEPT ![m.name] = RepeatSearch(m, payload_len, 0).repeat]
    ELSE rp

\* (self.name, name, nt)
Cls_result(cls, r) ==
    IF r.kind = "Record"
    THEN [kind |-> "Record", cls |-> cls.name, name |-> r.name, nt |-> r.nt]
    ELSE r

\* Cls.parse
Cls_parse(cls, msg_id, payload) == Cls_result(cls, Message_parse(cls.messages[msg_id], payload))

(***************************************************************************)
(* Parser: the prefix, the checksum and the checks of receive_from.        *)
(***************************************************************************)
\* the sync pair of the wire format
SYNC == <<181, 98>>

\* Parser.PREFIX = str((0xB5, 0x62)): in Python 2 the text "(181, 98)"
PREFIX == StrOfTuple(SYNC)

\* FletcherLoop with check_a masked by 0x7F
RECURSIVE FletcherLoop_mask7(_, _)
FletcherLoop_mask7(payload, ck) ==
    IF payload = <<>> THEN ck
    ELSE LET check_a == (ck[1] + payload[1]) % 128
         IN  FletcherLoop_mask7(Tail(payload), <<check_a, (ck[2] + check_a) % 256>>)

\* the loop of _generate_fletcher_checksum from (check_a, check_b) = ck
RECURSIVE FletcherLoop(_, _)
FletcherLoop(payload, ck) ==
    IF payload = <<>> THEN ck
    ELSE LET check_a == (ck[1] + payload[1]) % 256
         IN  FletcherLoop(Tail(payload), <<check_a, (ck[2] + check_a) % 256>>)

\* Parser._generate_fletcher_checksum: str((check_a, check_b))
generate_fletcher_checksum(payload) == StrOfTuple(FletcherLoop(payload, <<0, 0>>))

\* one pass of the loop of Parser._read_until, c being what stream.read(1)
\* gave: the line so far and whether the loop is left
read_until_pass(line, c, terminator) ==
    IF c # <<>>
    THEN [line |-> line \o c, brk |-> Tail_n(line \o c, Len(terminator)) = terminator]
    ELSE [line |-> line, brk |-> TRUE]

\* receive_from: buff[-2:] == self.PREFIX
PrefixSeen(buff) == Tail_n(buff, 2) = PREFIX

\* CheckValidity with the message-id test raising whatever the policy is
CheckValidity_strict_id(classes, msg_cls, msg_id, ignoreunsupported_) ==
    IF msg_cls \notin DOMAIN classes
    THEN (IF ignoreunsupported_ THEN "skipped" ELSE "ValueError")
    ELSE IF msg_id \notin DOMAIN classes[msg_cls].messages
    THEN "ValueError"
    ELSE "ok"

\* receive_from: the validity check of (msg_cls, msg_id) after the header
CheckValidity(classes, msg_cls, msg_id, ignoreunsupported_) ==
    IF msg_cls \notin DOMAIN classes
    THEN (IF ignoreunsupported_ THEN "skipped" ELSE "ValueError")
    ELSE IF msg_id \notin DOMAIN classes[msg_cls].messages
    THEN (IF ignoreunsupported_ THEN "skipped" ELSE "ValueError")
    ELSE "ok"

\* PayloadShort testing for too many bytes only
PayloadShort_over(b, length) == Len(b) > 4 + length

\* receive_from: the length tests after the three reads
HeaderShort(b) == Len(b) # 4
PayloadShort(b, length) == Len(b) # 4 + length
ChecksumShort(checksum_sup) == Len(checksum_sup) # 2

\* ChecksumDiffers with the comparison inverted
ChecksumDiffers_inverted(checksum_cal, checksum_sup) == checksum_cal = checksum_sup

\* receive_from: checksum_cal != checksum_sup
ChecksumDiffers(checksum_cal, checksum_sup) == checksum_cal # checksum_sup

\* the classes the Parser is constructed with
Registry ==
    LET ONE == Message(1, "ONE", <<Field("a", "U1", 1)>>)
        SAT == Message(2, "SAT", <<Field("n", "U1", 1),
                                   RepeatedBlock("blk", <<Field("x", "U1", 1)>>)>>)
        ACK == Message(1, "ACK_", <<Field("clsID", "U1", 1), Field("msgID", "U1", 1)>>)
    IN  (1 :> Cls(1, "NAV", (1 :> ONE @@ 2 :> SAT))) @@ (5 :> Cls(5, "ACK", (1 :> ACK)))

\* the messages of the Registry
RegistryMessages ==
    UNION { { Registry[c].messages[i] : i \in DOMAIN Registry[c].messages } : c \in DOMAIN Registry }

\* further messages handed to Message.parse directly
B2R4 == Message(16, "B2R4", <<Field("a", "U1", 1), Field("b", "U1", 1),
                              RepeatedBlock("blk", <<Field("p", "U1", 1), Field("q", "I1", 1),
                                                     Field("r", "U1", 1), Field("s", "U1", 1)>>)>>)
B1R2 == Message(17, "B1R2", <<Field("a", "U1", 1), RepeatedBlock("blk", <<Field("b", "U2", 1)>>)>>)
H2I4 == Message(18, "H2I4", <<Field("a", "U2", 1), RepeatedBlock("blk", <<Field("b", "U4", 1)>>)>>)
MID == Message(19, "MID", <<PadByte(0), RepeatedBlock("blk", <<Field("x", "U1", 2)>>),
                            Field("z", "S", 2)>>)
FIX == Message(20, "FIX", <<Field("a", "U1", 1), Field("b", "U2", 1)>>)
P2R4 == Message(21, "P2R4", <<PadByte(1), RepeatedBlock("blk", <<Field("x", "U1", 4)>>)>>)
\* a message whose repeat unit has no descriptor, so no size
Z1R0 == Message(22, "Z1R0", <<Field("a", "U1", 1), RepeatedBlock("blk", <<>>)>>)

Messages == RegistryMessages \cup {B2R4, B1R2, H2I4, MID, FIX, P2R4, Z1R0}

\* the payloads handed to Message.parse
Payloads ==
    { [i \in 1..n |-> base + i] : n \in 0..MaxPayloadLen, base \in {0, 100} }

(***************************************************************************)
(* Byte sources.                                                           *)
(***************************************************************************)
\* header, payload and checksum of one frame
Body(cls, id, payload, ck) ==
    <<cls, id, Len(payload) % 256, Len(payload) \div 256>> \o payload \o ck

\* the two checksum bytes of the wire format for a header and payload
WireChecksum(cls, id, payload) ==
    FletcherLoop(<<cls, id, Len(payload) % 256, Len(payload) \div 256>> \o payload, <<0, 0>>)

GoodBody(cls, id, payload) == Body(cls, id, payload, WireChecksum(cls, id, payload))

BadBody(cls, id, payload) ==
    LET ck == WireChecksum(cls, id, payload)
    IN  Body(cls, id, payload, <<(ck[1] + 1) % 256, ck[2]>>)

FirstBodies ==
    { GoodBody(1, 1, <<7>>), GoodBody(1, 2, <<1, 36>>), GoodBody(1, 2, <<2, 3, 4>>),
      GoodBody(5, 1, <<1, 2>>), GoodBody(1, 1, <<7, 8>>),
      BadBody(1, 1, <<7>>), BadBody(1, 2, <<1, 36>>),
      GoodBody(9, 1, <<3>>), GoodBody(1, 7, <<181, 98>>), GoodBody(1, 7, <<>>) }

NextBodies == { GoodBody(1, 1, <<9>>), BadBody(5, 1, <<1, 2>>), GoodBody(9, 1, <<3>>) }

Preambles == { <<>>, SYNC, <<0, 181>> \o SYNC, PREFIX, PREFIX \o SYNC }

Prefixes(s) == { SubSeq(s, 1, k) : k \in 0..Len(s) }

\* UbloxGps.cls_ms: class name to class id, and message name to message id
cls_ms_class(cls_name) == CHOOSE c \in DOMAIN Registry : Registry[c].name = cls_name
cls_ms_message(cls_name, msg_name) ==
    CHOOSE i \in DOMAIN Registry[cls_ms_class(cls_name)].messages :
        Registry[cls_ms_class(cls_name)].messages[i].name = msg_name

\* str(list) of a list of integers: the text "[a, b]"
StrOfList(l) == <<91>> \o JoinDec(l) \o <<93>>

\* a ubx_payload argument: None, a str, a list of integers or an integer
PayloadNone == [t |-> "None"]
PayloadStr(v_) == [t |-> "str", v |-> v_]
PayloadList(v_) == [t |-> "list", v |-> v_]
PayloadInt(v_) == [t |-> "int", v |-> v_]

\* the payload text of send_message: '\x00' and None give no payload, a
\* list its str(), any other object the str() of the list holding it
send_message_payload(ubx_payload) ==
    CASE ubx_payload.t = "None" -> <<>>
      [] ubx_payload.t = "str" -> IF ubx_payload.v = <<0>> THEN <<>> ELSE ubx_payload.v
      [] ubx_payload.t = "list" -> StrOfList(ubx_payload.v)
      [] ubx_payload.t = "int" -> StrOfList(<<ubx_payload.v>>)

\* message of send_message: str() of the header tuple, then the payload
send_message_message(ubx_class_id, ubx_id, payload) ==
    StrOfTuple(<<181, 98, ubx_class_id, ubx_id, Len(payload) % 256, Len(payload) \div 256>>)
    \o payload

\* what send_message writes to the port: message + checksum, the checksum
\* computed over message[2:]
send_message_written(message) ==
    message \o generate_fletcher_checksum(SubSeq(message, 3, Len(message)))

send_message(cls_name, msg_name, ubx_payload) ==
    send_message_written(send_message_message(cls_ms_class(cls_name),
                                              cls_ms_message(cls_name, msg_name),
                                              send_message_payload(ubx_payload)))

\* the arguments handed to send_message
SendArgs ==
    { [cls |-> "NAV", msg |-> "ONE", payload |-> PayloadStr(<<7>>)],
      [cls |-> "NAV", msg |-> "ONE", payload |-> PayloadStr(<<0>>)],
      [cls |-> "NAV", msg |-> "ONE", payload |-> PayloadNone],
      [cls |-> "NAV", msg |-> "SAT", payload |-> PayloadStr(<<1, 36>>)],
      [cls |-> "NAV", msg |-> "SAT", payload |-> PayloadList(<<1, 36>>)],
      [cls |-> "ACK", msg |-> "ACK_", payload |-> PayloadInt(5)] }

\* the sources that hold what send_message wrote
SentFrames == { send_message(a.cls, a.msg, a.payload) : a \in SendArgs }

Streams ==
    SentFrames \cup
    UNION { Prefixes(pre \o b1) : pre \in Preambles, b1 \in FirstBodies }
    \cup UNION { { pre \o b1 \o pre2 \o SubSeq(b2, 1, k) : k \in {0, 3, Len(b2)} } :
                 pre \in {<<>>, SYNC}, b1 \in FirstBodies, pre2 \in {<<>>, SYNC}, b2 \in NextBodies }

(***************************************************************************)
(* State.                                                                  *)
(***************************************************************************)
VARIABLES
    stream,             \* the bytes the source holds
    pos,                \* bytes of the source consumed so far
    pc,                 \* position of receive_from: idle, seek, header, payload, checksum, done
    skippreamble,       \* arguments of the call in progress
    ignoreunsupported,
    start,              \* pos when the call began
    hdr,                \* pos when the call read the header, -1 before
    line,               \* line of the _read_until call in progress
    buff,               \* buff of receive_from
    empty_reads,        \* reads of the call that returned no byte
    dispatched,         \* the call reached self.classes[msg_cls].parse
    checksum_cal,       \* checksum_cal of receive_from, <<>> before it is computed
    result,             \* what the call returns or raises
    returned,           \* the finished calls, in order
    repeat,             \* RepeatedBlock.repeat of each message that has a block
    m_pc,               \* position of Message.parse: idle, loop, unpack, done
    m_msg,              \* the Message whose parse is called
    m_payload,          \* its payload argument
    m_result,           \* what it returns or raises
    parses,             \* Message.parse calls made so far
    repeat_before,      \* repeat as it was when the Message.parse call in progress began
    c_msg,              \* the Message two readers decode at the same time
    t_pc,               \* position of each reader in Message.parse
    t_payload,          \* payload argument of each reader
    t_tmp,              \* the repeat attribute each reader loaded for "repeat += 1"
    t_vals,             \* the tuple struct.unpack gave each reader
    t_result,           \* what each reader's Message.parse returns or raises
    u_call,             \* the constructor or function called last, with its arguments
    u_result,           \* what that call returned or raised
    endless,            \* the port delivers the bytes of stream again and again
    r_pc,               \* position of run_packet_reader: loop, nmea, parse, stopped
    c2,                 \* c2 of run_packet_reader
    got,                \* what the hard_port.read(1) of the current iteration returned
    nmea_line_buffer,   \* number of lines held by the deque nmea_line_buffer
    packets,            \* self.packets: per (class name, message name) the cached packet
    stores,             \* set_packet calls that stored a packet so far
    worker_exception_buffer, \* the deque of exceptions the reader thread caught
    stopping,           \* self.stopping
    s_pc,               \* position of stop(): idle, join, done
    written,            \* what was written to the port, in order
    q_pc,               \* position of each caller in request_standard_packet
    q_args,             \* arguments of each caller's call
    orig_packet,        \* orig_packet of each caller
    cleared_at,         \* stores when the caller's set_packet(..., None) cleared the entry
    q_result            \* what each caller's call returned or raised

pvars == <<stream, pos, pc, skippreamble, ignoreunsupported, start, hdr, line, buff,
           empty_reads, dispatched, checksum_cal, result, returned>>

mvars == <<m_pc, m_msg, m_payload, m_result, parses, repeat_before>>

cvars == <<c_msg, t_pc, t_payload, t_tmp, t_vals, t_result>>

uvars == <<u_call, u_result>>

gvars == <<endless, r_pc, c2, got, nmea_line_buffer, packets, stores, worker_exception_buffer,
           stopping, s_pc, written, q_pc, q_args, orig_packet, cleared_at, q_result>>

vars == <<pvars, repeat, mvars, cvars, uvars, gvars>>

NoResult == [kind |-> "none"]

\* the readers that decode at the same time
Readers == {1, 2}

\* the state after construction of the schema objects: repeat = 0
InitSchema ==
    /\ repeat = [n \in { m.name : m \in { x \in Messages : HasRepeatedBlock(x) } } |-> 0]
    /\ m_pc = "idle"
    /\ m_msg = FIX
    /\ m_payload = <<>>
    /\ m_result = NoResult
    /\ parses = 0
    /\ repeat_before = repeat

\* no receive_from call made
InitParser ==
    /\ pos = 0
    /\ pc = "idle"
    /\ skippreamble = FALSE
    /\ ignoreunsupported = FALSE
    /\ start = 0
    /\ hdr = -1
    /\ line = <<>>
    /\ buff = <<>>
    /\ empty_reads = 0
    /\ dispatched = FALSE
    /\ checksum_cal = <<>>
    /\ result = NoResult
    /\ returned = <<>>

\* no reader decoding
InitReaders ==
    /\ c_msg = FIX
    /\ t_pc = [r \in Readers |-> "idle"]
    /\ t_payload = [r \in Readers |-> <<>>]
    /\ t_tmp = [r \in Readers |-> 0]
    /\ t_vals = [r \in Readers |-> <<>>]
    /\ t_result = [r \in Readers |-> NoResult]

\* no call made
InitCalls ==
    /\ u_call = [op |-> "none"]
    /\ u_result = NoResult

\* the threads that call request_standard_packet
Callers == {1, 2}

\* the keys of self.packets and self.cls_ms_auto: (class name, message name)
PacketKeys ==
    UNION { { <<Registry[c].name, Registry[c].messages[i].name>> :
                  i \in DOMAIN Registry[c].messages } : c \in DOMAIN Registry }

\* no entry under a key of self.packets[cls_name]
NoPacket == [kind |-> "absent"]

\* UbloxGps.__init__: empty cache, empty buffers, the flag down, the reader
\* thread started; no caller in a call, stop() not called
InitGps ==
    /\ r_pc = "loop"
    /\ c2 = <<>>
    /\ got = <<>>
    /\ nmea_line_buffer = 0
    /\ packets = [k \in PacketKeys |-> NoPacket]
    /\ stores = 0
    /\ worker_exception_buffer = <<>>
    /\ stopping = FALSE
    /\ s_pc = "idle"
    /\ written = <<>>
    /\ q_pc = [c \in Callers |-> "idle"]
    /\ q_args = [c \in Callers |-> [op |-> "none"]]
    /\ orig_packet = [c \in Callers |-> NoPacket]
    /\ cleared_at = [c \in Callers |-> -1]
    /\ q_result = [c \in Callers |-> NoResult]

Init ==
    /\ InitSchema
    /\ stream \in Streams
    /\ InitParser
    /\ InitReaders
    /\ InitCalls
    /\ endless = FALSE
    /\ InitGps

(***************************************************************************)
(* Parser.receive_from, one action per stream read.                        *)
(***************************************************************************)
\* the call, up to the test of the while-loop
Call(sp, iu) ==
    /\ pc = "idle"
    /\ Len(returned) < MaxCalls
    /\ skippreamble' = sp
    /\ ignoreunsupported' = iu
    /\ start' = pos
    /\ hdr' = -1
    /\ line' = <<>>
    /\ buff' = <<>>
    /\ empty_reads' = 0
    /\ dispatched' = FALSE
    /\ checksum_cal' = <<>>
    /\ result' = NoResult
    /\ pc' = IF sp THEN "header" ELSE "seek"
    /\ UNCHANGED <<stream, pos, returned, repeat, mvars, cvars, uvars, gvars>>

\* one stream.read(1) of _read_until and, when _read_until returns, the
\* test of its result in the while-loop of receive_from
ReadUntilStep ==
    /\ pc = "seek"
    /\ empty_reads < MaxEmptyReads
    /\ LET c == Read(stream, pos, 1)
           p == read_until_pass(line, c, PREFIX)
       IN  /\ pos' = pos + Len(c)
           /\ empty_reads' = IF c = <<>> THEN empty_reads + 1 ELSE empty_reads
           /\ IF ~p.brk
              THEN /\ line' = p.line
                   /\ pc' = "seek"
              ELSE /\ line' = <<>>
                   /\ pc' = IF PrefixSeen(p.line) THEN "header" ELSE "seek"
    /\ UNCHANGED <<stream, skippreamble, ignoreunsupported, start, hdr, buff, dispatched,
                   checksum_cal, result, returned, repeat, mvars, cvars, uvars, gvars>>

\* stream.read(4), the unpacking of the header and the validity check
ReadHeader ==
    /\ pc = "header"
    /\ LET b == Read(stream, pos, 4)
           h == unpack(<<[n |-> 1, c |-> "B"], [n |-> 1, c |-> "B"], [n |-> 1, c |-> "H"]>>, b)
       IN  /\ pos' = pos + Len(b)
           /\ hdr' = pos
           /\ buff' = b
           /\ IF HeaderShort(b)
              THEN /\ result' = [kind |-> "IOError", at |-> "header"]
                   /\ pc' = "done"
              ELSE LET v == CheckValidity(Registry, h[1], h[2], ignoreunsupported)
                   IN  /\ result' = CASE v = "skipped" -> [kind |-> "skipped"]
                                      [] v = "ValueError" -> [kind |-> "ValueError", at |-> "header"]
                                      [] OTHER -> result
                       /\ pc' = IF v = "ok" THEN "payload" ELSE "done"
    /\ UNCHANGED <<stream, skippreamble, ignoreunsupported, start, line, empty_reads,
                   dispatched, checksum_cal, returned, repeat, mvars, cvars, uvars, gvars>>

\* length of the header held in buff
HeaderLength(b) == b[3] + 256 * b[4]

\* stream.read(length)
ReadPayload ==
    /\ pc = "payload"
    /\ LET b == Read(stream, pos, HeaderLength(buff))
       IN  /\ pos' = pos + Len(b)
           /\ buff' = buff \o b
           /\ IF PayloadShort(buff \o b, HeaderLength(buff))
              THEN /\ result' = [kind |-> "IOError", at |-> "payload"]
                   /\ pc' = "done"
              ELSE /\ pc' = "checksum"
                   /\ UNCHANGED result
    /\ UNCHANGED <<stream, skippreamble, ignoreunsupported, start, hdr, line, empty_reads,
                   dispatched, checksum_cal, returned, repeat, mvars, cvars, uvars, gvars>>

\* stream.read(2), the checksum test and the dispatch to Cls.parse
ReadChecksum ==
    /\ pc = "checksum"
    /\ LET checksum_sup == Read(stream, pos, 2)
       IN  /\ pos' = pos + Len(checksum_sup)
           /\ IF ChecksumShort(checksum_sup)
              THEN /\ result' = [kind |-> "IOError", at |-> "checksum"]
                   /\ UNCHANGED <<dispatched, checksum_cal, repeat>>
              ELSE /\ checksum_cal' = generate_fletcher_checksum(buff)
                   /\ IF ChecksumDiffers(generate_fletcher_checksum(buff), checksum_sup)
                      THEN /\ result' = [kind |-> "ValueError", at |-> "checksum"]
                           /\ UNCHANGED <<dispatched, repeat>>
                      ELSE /\ result' = Cls_parse(Registry[buff[1]], buff[2],
                                                SubSeq(buff, 5, Len(buff)))
                           /\ dispatched' = TRUE
                           /\ repeat' = RepeatAfter(Registry[buff[1]].messages[buff[2]],
                                                    Len(buff) - 4, repeat)
    /\ pc' = "done"
    /\ UNCHANGED <<stream, skippreamble, ignoreunsupported, start, hdr, line, buff,
                   empty_reads, returned, mvars, cvars, uvars, gvars>>

\* the return, or the exception reaching the caller
Return ==
    /\ pc = "done"
    /\ returned' = Append(returned, [result |-> result, start |-> start, hdr |-> hdr,
                                     end |-> pos,
                                     skippreamble |-> skippreamble,
                                     ignoreunsupported |-> ignoreunsupported])
    /\ pc' = "idle"
    /\ UNCHANGED <<stream, pos, skippreamble, ignoreunsupported, start, hdr, line, buff,
                   empty_reads, dispatched, checksum_cal, result, repeat, mvars, cvars, uvars, gvars>>

Next ==
    \/ \E sp \in BOOLEAN, iu \in BOOLEAN : Call(sp, iu)
    \/ ReadUntilStep
    \/ ReadHeader
    \/ ReadPayload
    \/ ReadChecksum
    \/ Return

Spec == Init /\ [][Next]_vars
(***************************************************************************)
(* Message.parse, one action per pass of its while-loop.                   *)
(***************************************************************************)
\* self._repeated_block.repeat as Message.fmt and RepeatedBlock.parse read it
RepeatOf(m, rp) == IF m.name \in DOMAIN rp THEN rp[m.name] ELSE 0

\* ParseCall without "self._repeated_block.repeat = 0"
ParseCall_noreset(m, payload) ==
    /\ m_pc = "idle"
    /\ parses < MaxParses
    /\ m_msg' = m
    /\ m_payload' = payload
    /\ m_result' = NoResult
    /\ parses' = parses + 1
    /\ repeat_before' = repeat
    /\ m_pc' = "loop"
    /\ UNCHANGED <<pvars, cvars, uvars, gvars, repeat>>

\* the call: payload_len taken, repeat reset when the message has a block
ParseCall(m, payload) ==
    /\ m_pc = "idle"
    /\ parses < MaxParses
    /\ m_msg' = m
    /\ m_payload' = payload
    /\ m_result' = NoResult
    /\ parses' = parses + 1
    /\ repeat' = IF HasRepeatedBlock(m) THEN [repeat EXCEPT ![m.name] = 0] ELSE repeat
    /\ repeat_before' = repeat
    /\ m_pc' = "loop"
    /\ UNCHANGED <<pvars, cvars, uvars, gvars>>

\* one pass of the while-loop
ParseLoop ==
    /\ m_pc = "loop"
    /\ LET s == ParseLoopStep(m_msg, Len(m_payload), RepeatOf(m_msg, repeat))
       IN  CASE s = "break" -> /\ m_pc' = "unpack"
                               /\ UNCHANGED <<repeat, m_result>>
             [] s = "raise" -> /\ m_pc' = "done"
                               /\ m_result' = [kind |-> "ValueError", at |-> "parse"]
                               /\ UNCHANGED repeat
             [] s = "inc" -> /\ repeat[m_msg.name] <= MaxPayloadLen
                             /\ repeat' = [repeat EXCEPT ![m_msg.name] = @ + 1]
                             /\ UNCHANGED <<m_pc, m_result>>
    /\ UNCHANGED <<pvars, cvars, uvars, gvars, m_msg, m_payload, parses, repeat_before>>

\* struct.unpack and the decode of the fields
ParseUnpack ==
    /\ m_pc = "unpack"
    /\ m_result' = Message_decode(m_msg, m_payload, RepeatOf(m_msg, repeat))
    /\ m_pc' = "done"
    /\ UNCHANGED <<pvars, cvars, uvars, gvars, repeat, m_msg, m_payload, parses, repeat_before>>

\* the return, or the exception reaching the caller
ParseReturn ==
    /\ m_pc = "done"
    /\ m_pc' = "idle"
    /\ UNCHANGED <<pvars, cvars, uvars, gvars, repeat, m_msg, m_payload, m_result, parses,
                   repeat_before>>

InitMsg ==
    /\ InitSchema
    /\ stream = <<>>
    /\ InitParser
    /\ InitReaders
    /\ InitCalls
    /\ endless = FALSE
    /\ InitGps

NextMsg ==
    \/ \E m \in Messages, payload \in Payloads : ParseCall(m, payload)
    \/ ParseLoop
    \/ ParseUnpack
    \/ ParseReturn

SpecMsg == InitMsg /\ [][NextMsg]_vars
(***************************************************************************)
(* Message.parse of one Message called by two readers at the same time,    *)
(* each on its own payload.  The readers share the Message and its         *)
(* RepeatedBlock; a step is one access to RepeatedBlock.repeat, the        *)
(* interpreter being free to switch readers between any two of them.       *)
(***************************************************************************)
\* the messages the readers decode and the payloads they hand in
ReaderMessages == {Registry[1].messages[2], B1R2}

ReaderPayloads == { p \in Payloads : p # <<>> /\ p[1] = 1 /\ Len(p) <= MaxReaderLen }

\* struct.unpack(fmt, data), struct.error when the sizes differ
unpack_checked(fmt, data) ==
    IF calcsize(fmt) # Len(data) THEN [err |-> "struct.error", vals |-> <<>>]
    ELSE [err |-> "", vals |-> unpack(fmt, data)]

\* the call up to the loop: self._repeated_block.repeat = 0
ReaderCall(r) ==
    /\ t_pc[r] = "idle"
    /\ t_result[r] = NoResult
    /\ repeat' = IF HasRepeatedBlock(c_msg) THEN [repeat EXCEPT ![c_msg.name] = 0] ELSE repeat
    /\ t_pc' = [t_pc EXCEPT ![r] = "size"]
    /\ UNCHANGED <<pvars, mvars, uvars, gvars, c_msg, t_payload, t_tmp, t_vals, t_result>>

\* fmt_len = struct.calcsize(self.fmt) and the tests on it
ReaderSize(r) ==
    /\ t_pc[r] = "size"
    /\ LET s == ParseLoopStep(c_msg, Len(t_payload[r]), RepeatOf(c_msg, repeat))
       IN  CASE s = "break" -> /\ t_pc' = [t_pc EXCEPT ![r] = "unpack"]
                               /\ UNCHANGED t_result
             [] s = "raise" -> /\ t_pc' = [t_pc EXCEPT ![r] = "done"]
                               /\ t_result' = [t_result EXCEPT ![r] = [kind |-> "ValueError",
                                                                       at |-> "parse"]]
             [] s = "inc" -> /\ t_pc' = [t_pc EXCEPT ![r] = "load"]
                             /\ UNCHANGED t_result
    /\ UNCHANGED <<pvars, mvars, uvars, gvars, repeat, c_msg, t_payload, t_tmp, t_vals>>

\* self._repeated_block.repeat += 1: the load of the attribute
ReaderLoad(r) ==
    /\ t_pc[r] = "load"
    /\ t_tmp' = [t_tmp EXCEPT ![r] = repeat[c_msg.name]]
    /\ t_pc' = [t_pc EXCEPT ![r] = "store"]
    /\ UNCHANGED <<pvars, mvars, uvars, gvars, repeat, c_msg, t_payload, t_vals, t_result>>

\* self._repeated_block.repeat += 1: the store of the sum
ReaderStore(r) ==
    /\ t_pc[r] = "store"
    /\ repeat' = [repeat EXCEPT ![c_msg.name] = t_tmp[r] + 1]
    /\ t_pc' = [t_pc EXCEPT ![r] = "size"]
    /\ UNCHANGED <<pvars, mvars, uvars, gvars, c_msg, t_payload, t_tmp, t_vals, t_result>>

\* what ReaderUnpack leaves in (t_pc, t_vals, t_result) of reader r for the result u of unpack
ReaderUnpacked(r, u) ==
    IF u.err # ""
    THEN /\ t_result' = [t_result EXCEPT ![r] = [kind |-> u.err, at |-> "parse"]]
         /\ t_pc' = [t_pc EXCEPT ![r] = "done"]
         /\ UNCHANGED t_vals
    ELSE /\ t_vals' = [t_vals EXCEPT ![r] = u.vals]
         /\ t_pc' = [t_pc EXCEPT ![r] = "fields"]
         /\ UNCHANGED t_result

\* it = iter(struct.unpack(self.fmt, payload))
ReaderUnpack(r) ==
    /\ t_pc[r] = "unpack"
    /\ ReaderUnpacked(r, unpack_checked(Message_fmt(c_msg, RepeatOf(c_msg, repeat)), t_payload[r]))
    /\ UNCHANGED <<pvars, mvars, uvars, gvars, repeat, c_msg, t_payload, t_tmp>>

\* [f.parse(it) for f in self._fields] and the return
ReaderFields(r) ==
    /\ t_pc[r] = "fields"
    /\ t_result' = [t_result EXCEPT ![r] =
                        AsRecord(c_msg, Message_fields_parse(c_msg.fields, t_vals[r], 0,
                                                             RepeatOf(c_msg, repeat)))]
    /\ t_pc' = [t_pc EXCEPT ![r] = "done"]
    /\ UNCHANGED <<pvars, mvars, uvars, gvars, repeat, c_msg, t_payload, t_tmp, t_vals>>

InitConc ==
    /\ InitSchema
    /\ stream = <<>>
    /\ InitParser
    /\ c_msg \in ReaderMessages
    /\ t_pc = [r \in Readers |-> "idle"]
    /\ t_payload \in [Readers -> ReaderPayloads]
    /\ t_tmp = [r \in Readers |-> 0]
    /\ t_vals = [r \in Readers |-> <<>>]
    /\ t_result = [r \in Readers |-> NoResult]
    /\ InitCalls
    /\ endless = FALSE
    /\ InitGps

NextConc ==
    \E r \in Readers :
        \/ ReaderCall(r)
        \/ ReaderSize(r)
        \/ ReaderLoad(r)
        \/ ReaderStore(r)
        \/ ReaderUnpack(r)
        \/ ReaderFields(r)

SpecConc == InitConc /\ [][NextConc]_vars
(***************************************************************************)
(* The constructors, with their validation.  A constructor call gives      *)
(* Constructed(object) or Raises(exception, class).                        *)
(***************************************************************************)
Constructed(o) == [kind |-> "object", obj |-> o]
Raises(err, cls) == [kind |-> err, at |-> cls]

\* the names of the descriptors that have a name attribute
RECURSIVE FieldNames(_)
FieldNames(fields) ==
    IF fields = <<>> THEN <<>>
    ELSE (IF fields[1].d = "PadByte" THEN <<>> ELSE <<fields[1].name>>)
         \o FieldNames(Tail(fields))

\* namedtuple(typename, field_names) accepts the field names: no name
\* twice (the names used here are identifiers, not keywords, without a
\* leading underscore)
namedtuple_ok(field_names) ==
    \A i, j \in 1..Len(field_names) : i # j => field_names[i] # field_names[j]

PadByte__init__(repeat_) == Constructed(PadByte(repeat_))

\* Field.__init__: the ValueError for len_ is built and dropped, not raised
Field__init__(name_, type_, len_) ==
    IF type_ \notin DOMAIN Field__types__ THEN Raises("ValueError", "Field")
    ELSE Constructed(Field(name_, type_, len_))

\* Flag__init__ without the test of stop against 4 * 8
Flag__init__unbounded(name_, start_, stop_) ==
    IF 0 > start_ THEN Raises("ValueError", "Flag")
    ELSE IF start_ > stop_ THEN Raises("ValueError", "Flag")
    ELSE Constructed(Flag(name_, start_, stop_))

Flag__init__(name_, start_, stop_) ==
    IF 0 > start_ THEN Raises("ValueError", "Flag")
    ELSE IF start_ > stop_ THEN Raises("ValueError", "Flag")
    ELSE IF stop_ > 4 * 8 THEN Raises("ValueError", "Flag")
    ELSE Constructed(Flag(name_, start_, stop_))

\* width of BitField.__init__
BitField_width(type_) == IF type_ = "X1" THEN 1 ELSE IF type_ = "X2" THEN 2 ELSE 4

BitField__init__(name_, type_, subfields_) ==
    IF type_ \notin DOMAIN BitField__types__ THEN Raises("ValueError", "BitField")
    ELSE IF \E i \in 1..Len(subfields_) : subfields_[i].stop > BitField_width(type_) * 8
    THEN Raises("ValueError", "BitField")
    ELSE IF ~namedtuple_ok(FieldNames(subfields_)) THEN Raises("ValueError", "namedtuple")
    ELSE Constructed(BitField(name_, type_, subfields_))

RepeatedBlock__init__(name_, fields_) ==
    IF ~namedtuple_ok(FieldNames(fields_)) THEN Raises("ValueError", "namedtuple")
    ELSE Constructed(RepeatedBlock(name_, fields_))

\* the descriptors of a list whose repeated_block is True
RepeatedBlocksOf(fields) == SelectSeq(fields, LAMBDA f : f.d = "RepeatedBlock")

\* Message__init__ without the test for a second RepeatedBlock
Message__init__unchecked(id_, name_, fields_) ==
    IF id_ < 0 THEN Raises("ValueError", "Message")
    ELSE IF id_ > 255 THEN Raises("ValueError", "Message")
    ELSE IF ~namedtuple_ok(FieldNames(fields_)) THEN Raises("ValueError", "namedtuple")
    ELSE Constructed(Message(id_, name_, fields_))

Message__init__(id_, name_, fields_) ==
    IF id_ < 0 THEN Raises("ValueError", "Message")
    ELSE IF id_ > 255 THEN Raises("ValueError", "Message")
    ELSE IF ~namedtuple_ok(FieldNames(fields_)) THEN Raises("ValueError", "namedtuple")
    ELSE IF Len(RepeatedBlocksOf(fields_)) > 1 THEN Raises("ValueError", "Message")
    ELSE Constructed(Message(id_, name_, fields_))

\* self._messages[msg.id_] = msg for msg in messages: the last of an id stays
Cls_messages(messages_) ==
    [i \in { messages_[k].id : k \in 1..Len(messages_) } |->
        messages_[CHOOSE k \in 1..Len(messages_) :
                     /\ messages_[k].id = i
                     /\ \A l \in 1..Len(messages_) : messages_[l].id = i => l <= k]]

Cls__init__(id_, name_, messages_) ==
    IF id_ < 0 THEN Raises("ValueError", "Cls")
    ELSE IF id_ > 255 THEN Raises("ValueError", "Cls")
    ELSE Constructed(Cls(id_, name_, Cls_messages(messages_)))

(***************************************************************************)
(* The arguments the constructors and functions are called with.           *)
(***************************************************************************)
\* the lists of at most n items of a set
RECURSIVE ListsUpTo(_, _)
ListsUpTo(S, n) ==
    IF n = 0 THEN {<<>>}
    ELSE ListsUpTo(S, n - 1) \cup { Append(l, x) : l \in { k \in ListsUpTo(S, n - 1) : Len(k) = n - 1 },
                                                   x \in S }

FlagBits == (-1)..33
FlagNames == {"f", "g"}
FieldTypes == DOMAIN Field__types__ \cup {"X1", "U8"}
FieldLens == {-1, 0, 1, 2}
BitFieldTypes == DOMAIN BitField__types__ \cup {"U1", "X8"}
Ids == {-1, 0, 255, 256}
PadRepeats == {-1, 0, 1, 5}

\* the Flags that can be constructed
Flags ==
    { r.obj : r \in { x \in { Flag__init__("f", a, b) : a, b \in FlagBits } : x.kind = "object" } }

\* the Flags handed to BitField
SubFlags ==
    { Flag(n, se[1], se[2]) : n \in FlagNames,
                              se \in {<<0, 8>>, <<0, 9>>, <<8, 16>>, <<16, 17>>, <<17, 32>>} }

\* the descriptors handed to RepeatedBlock
InnerDescriptors ==
    { PadByte(0), PadByte(-1), Field("a", "U1", 1), Field("b", "U2", 1),
      BitField("bits", "X1", <<Flag("f", 0, 8)>>) }

\* the descriptors handed to Message
MessageDescriptors ==
    InnerDescriptors
    \cup { RepeatedBlock("blk", <<Field("x", "U1", 1)>>),
           RepeatedBlock("rep", <<Field("y", "U2", 1)>>),
           RepeatedBlock("zero", <<>>) }

\* the 32-bit words handed to Flag.parse
Words ==
    { Bin(44) }
    \cup { [i \in 1..WordBits |-> IF a < i /\ i <= b THEN 1 ELSE 0] : a, b \in {0, 1, 7, 8, 16, 31, 32} }
    \cup { [i \in 1..WordBits |-> i % 2], [i \in 1..WordBits |-> (i + 1) % 2],
           [i \in 1..WordBits |-> IF i % 3 = 0 THEN 1 ELSE 0] }

\* the byte strings handed to _generate_fletcher_checksum
ByteStrings == ListsUpTo({0, 1, 127, 128, 255}, MaxBytes)

\* byte b with bit k flipped
FlipBit(b, k) == IF (b \div (2 ^ k)) % 2 = 1 THEN b - 2 ^ k ELSE b + 2 ^ k

(***************************************************************************)
(* One call of a constructor or of a function.  The constructors and the   *)
(* two functions keep no state from one call to the next, so a behaviour   *)
(* is followed through one call.                                           *)
(***************************************************************************)
\* no call has been made
NoCallYet == u_call.op = "none"

New_PadByte ==
    /\ NoCallYet
    /\ \E repeat_ \in PadRepeats :
           /\ u_call' = [op |-> "PadByte", repeat |-> repeat_]
           /\ u_result' = PadByte__init__(repeat_)
    /\ UNCHANGED <<pvars, repeat, mvars, cvars, gvars>>

New_Field ==
    /\ NoCallYet
    /\ \E name_ \in {"a", "b"}, type_ \in FieldTypes, len_ \in FieldLens :
           /\ u_call' = [op |-> "Field", name |-> name_, type |-> type_, len |-> len_]
           /\ u_result' = Field__init__(name_, type_, len_)
    /\ UNCHANGED <<pvars, repeat, mvars, cvars, gvars>>

New_Flag ==
    /\ NoCallYet
    /\ \E start_ \in FlagBits, stop_ \in FlagBits :
           /\ u_call' = [op |-> "Flag", name |-> "f", start |-> start_, stop |-> stop_]
           /\ u_result' = Flag__init__("f", start_, stop_)
    /\ UNCHANGED <<pvars, repeat, mvars, cvars, gvars>>

New_BitField ==
    /\ NoCallYet
    /\ \E type_ \in BitFieldTypes, subfields_ \in ListsUpTo(SubFlags, 2) :
           /\ u_call' = [op |-> "BitField", name |-> "bits", type |-> type_,
                         subfields |-> subfields_]
           /\ u_result' = BitField__init__("bits", type_, subfields_)
    /\ UNCHANGED <<pvars, repeat, mvars, cvars, gvars>>

New_RepeatedBlock ==
    /\ NoCallYet
    /\ \E fields_ \in ListsUpTo(InnerDescriptors, 2) :
           /\ u_call' = [op |-> "RepeatedBlock", name |-> "blk", fields |-> fields_]
           /\ u_result' = RepeatedBlock__init__("blk", fields_)
    /\ UNCHANGED <<pvars, repeat, mvars, cvars, gvars>>

New_Message ==
    /\ NoCallYet
    /\ \E id_ \in Ids, fields_ \in ListsUpTo(MessageDescriptors, 3) :
           /\ u_call' = [op |-> "Message", id |-> id_, name |-> "MSG", fields |-> fields_]
           /\ u_result' = Message__init__(id_, "MSG", fields_)
    /\ UNCHANGED <<pvars, repeat, mvars, cvars, gvars>>

New_Cls ==
    /\ NoCallYet
    /\ \E id_ \in Ids, messages_ \in ListsUpTo(RegistryMessages, 2) :
           /\ u_call' = [op |-> "Cls", id |-> id_, name |-> "CLS", messages |-> messages_]
           /\ u_result' = Cls__init__(id_, "CLS", messages_)
    /\ UNCHANGED <<pvars, repeat, mvars, cvars, gvars>>

\* f.parse(w) of a constructed Flag
Call_Flag_parse ==
    /\ NoCallYet
    /\ \E f \in Flags, w \in Words :
           /\ u_call' = [op |-> "Flag.parse", flag |-> f, value |-> w]
           /\ u_result' = Flag_parse_word(f, w)
    /\ UNCHANGED <<pvars, repeat, mvars, cvars, gvars>>

\* Parser._generate_fletcher_checksum(payload), then the same call on
\* payload with bit k of its byte i flipped
Call_checksum ==
    /\ NoCallYet
    /\ \E payload \in ByteStrings \ {<<>>} : \E i \in 1..Len(payload), k \in 0..7 :
           /\ u_call' = [op |-> "checksum", payload |-> payload, i |-> i, k |-> k]
           /\ u_result' = <<generate_fletcher_checksum(payload),
                            generate_fletcher_checksum([payload EXCEPT ![i] = FlipBit(@, k)])>>
    /\ UNCHANGED <<pvars, repeat, mvars, cvars, gvars>>

\* the Fields that can be constructed
Fields ==
    { r.obj : r \in { x \in { Field__init__("a", t, n) : t \in FieldTypes, n \in FieldLens } :
                          x.kind = "object" } }

\* Field.parse(it) on the iterator over struct.unpack(field.fmt, payload)
Call_Field_parse ==
    /\ NoCallYet
    /\ \E f \in Fields, fill \in {0, 65} :
           /\ u_call' = [op |-> "Field.parse", field |-> f,
                         vals |-> unpack(Field_fmt(f),
                                         [i \in 1..calcsize(Field_fmt(f)) |-> fill])]
           /\ u_result' = Field_parse(f, unpack(Field_fmt(f),
                                                [i \in 1..calcsize(Field_fmt(f)) |-> fill]), 0)
    /\ UNCHANGED <<pvars, repeat, mvars, cvars, gvars>>

NextCalls ==
    \/ New_PadByte
    \/ New_Field
    \/ New_Flag
    \/ New_BitField
    \/ New_RepeatedBlock
    \/ New_Message
    \/ New_Cls
    \/ Call_Flag_parse
    \/ Call_checksum
    \/ Call_Field_parse

SpecCalls == InitMsg /\ [][NextCalls]_vars
(***************************************************************************)
(* UbloxGps of ublox_gps/ublox_gps.py: the reader thread                   *)
(* run_packet_reader, caller threads in request_standard_packet, a         *)
(* set_packet call made from outside and stop().  A step is one read of    *)
(* the port or one access to an attribute that the threads share.  The     *)
(* tests of self.stopping that close an iteration and the except clause    *)
(* are taken with the test that opens the next iteration.  No set_auto_msg *)
(* call is made, so cls_ms_auto stays as __init__ left it.                 *)
(***************************************************************************)
MAX_ERRORS == 5
MAX_NMEA_LINES == 50

\* the key the callers and the outside set_packet call use
CacheKey == <<"NAV", "ONE">>

\* self.cls_ms_auto after __init__: no message in an auto-update list
cls_ms_auto == [k \in PacketKeys |-> FALSE]

\* some of self.pckt_scl: field name to scale factor
pckt_scl == [lon |-> "10**-7", pDOP |-> "0.01", hAcc |-> "0.1"]

\* scale_packet on the (name, value) pairs of a packet: a value whose name
\* is in pckt_scl becomes the product scale * value
scale_packet(nt) ==
    [i \in 1..Len(nt) |->
        IF nt[i][1] \in DOMAIN pckt_scl
        THEN <<nt[i][1], [scale |-> pckt_scl[nt[i][1]], times |-> nt[i][2]]>>
        ELSE nt[i]]

\* deque.append on a deque of maxlen n: when full the oldest item goes
deque_append(d, x, n) == Tail_n(Append(d, x), n)

\* bytes consumed after a read of n bytes at p: a port that is endless
\* starts again at the first byte of s
port_after(s, p, n, e) == IF e /\ p + n >= Len(s) THEN 0 ELSE p + n

\* set_packet with a payload: the entry stored by the n-th storing call
set_packet_store(pk, key, payload, n) ==
    [pk EXCEPT ![key] = [kind |-> "packet", nt |-> payload, at |-> n]]

\* set_packet with None, the entry being there: del
set_packet_del(pk, key) == [pk EXCEPT ![key] = NoPacket]

\* the attributes of the reader and of stop()
rvars == <<endless, r_pc, c2, got, nmea_line_buffer>>
svars == <<stopping, s_pc>>

\* one iteration of run_packet_reader up to its branch: the test of
\* self.stopping, hard_port.read(1), c2 cut to len(PREFIX) characters
ReaderRead ==
    /\ r_pc = "loop"
    /\ IF stopping
       THEN /\ r_pc' = "stopped"
            /\ UNCHANGED <<pos, c2, got>>
       ELSE /\ pos' = port_after(stream, pos, Len(Read(stream, pos, 1)), endless)
            /\ got' = Read(stream, pos, 1)
            /\ c2' = Tail_n(c2 \o Read(stream, pos, 1), Len(PREFIX))
            /\ r_pc' = IF Tail_n(c2 \o Read(stream, pos, 1), 1) = <<36>> THEN "nmea"
                       ELSE IF Tail_n(c2 \o Read(stream, pos, 1), Len(PREFIX)) = PREFIX
                       THEN "parse"
                       ELSE "loop"
    /\ UNCHANGED <<stream, pc, skippreamble, ignoreunsupported, start, hdr, line, buff,
                   empty_reads, dispatched, checksum_cal, result, returned, repeat, mvars,
                   cvars, uvars, endless, nmea_line_buffer, packets, stores,
                   worker_exception_buffer, svars, written, q_pc, q_args, orig_packet,
                   cleared_at, q_result>>

\* one stream.read(1) of _read_until(hard_port, '\r\n') and, when it
\* returns, the append to nmea_line_buffer and c2 = ''.  Of line only the
\* last len(terminator) bytes, which the loop tests, are kept; the lines of
\* the sources used here are ASCII, so decode raises nothing
ReaderNmea ==
    /\ r_pc = "nmea"
    /\ pos' = port_after(stream, pos, Len(Read(stream, pos, 1)), endless)
    /\ IF ~read_until_pass(line, Read(stream, pos, 1), <<13, 10>>).brk
       THEN /\ line' = Tail_n(read_until_pass(line, Read(stream, pos, 1), <<13, 10>>).line, 2)
            /\ UNCHANGED <<r_pc, c2, nmea_line_buffer>>
       ELSE /\ line' = <<>>
            /\ nmea_line_buffer' = Min(nmea_line_buffer + 1, MAX_NMEA_LINES)
            /\ c2' = <<>>
            /\ r_pc' = "loop"
    /\ UNCHANGED <<stream, pc, skippreamble, ignoreunsupported, start, hdr, buff,
                   empty_reads, dispatched, checksum_cal, result, returned, repeat, mvars,
                   cvars, uvars, endless, got, packets, stores, worker_exception_buffer,
                   svars, written, q_pc, q_args, orig_packet, cleared_at, q_result>>

\* self.parse_tool.receive_from(self.hard_port, True, True)
ReaderReceive ==
    /\ r_pc = "parse"
    /\ Call(TRUE, TRUE)

\* receive_from has returned or raised: a record is stored by set_packet,
\* (None, None, None) is dropped, an exception is appended to
\* worker_exception_buffer
ReaderParsed ==
    /\ r_pc = "parse"
    /\ pc = "done"
    /\ pc' = "idle"
    /\ r_pc' = "loop"
    /\ CASE result.kind = "Record" ->
                /\ packets' = set_packet_store(packets, <<result.cls, result.name>>,
                                               result.nt, stores + 1)
                /\ stores' = stores + 1
                /\ UNCHANGED worker_exception_buffer
         [] result.kind = "skipped" ->
                UNCHANGED <<packets, stores, worker_exception_buffer>>
         [] OTHER ->
                /\ worker_exception_buffer' =
                       deque_append(worker_exception_buffer, result, MAX_ERRORS)
                /\ UNCHANGED <<packets, stores>>
    /\ UNCHANGED <<stream, pos, skippreamble, ignoreunsupported, start, hdr, line, buff,
                   empty_reads, dispatched, checksum_cal, result, returned, repeat, mvars,
                   cvars, uvars, endless, c2, got, nmea_line_buffer, svars, written, q_pc,
                   q_args, orig_packet, cleared_at, q_result>>

\* the packets handed to set_packet from outside: (name, value) pairs
ClientPackets == { <<<<"a", 7>>>>, <<<<"lon", 5>>, <<"a", 1>>>> }

\* set_packet(cls_name, msg_name, payload) with a payload, called from
\* outside the two threads of the calls below
SetPacket ==
    /\ stores < MaxStores
    /\ \E payload \in ClientPackets :
           packets' = set_packet_store(packets, CacheKey, payload, stores + 1)
    /\ stores' = stores + 1
    /\ UNCHANGED <<pvars, repeat, mvars, cvars, uvars, rvars, worker_exception_buffer,
                   svars, written, q_pc, q_args, orig_packet, cleared_at, q_result>>

\* the arguments of request_standard_packet
RequestArgs ==
    { [cls |-> "NAV", msg |-> "ONE", ubx_payload |-> PayloadNone, wait_time |-> 2500,
       rethrow_thread_exception |-> TRUE],
      [cls |-> "NAV", msg |-> "ONE", ubx_payload |-> PayloadStr(<<0>>), wait_time |-> -1,
       rethrow_thread_exception |-> FALSE] }

\* request_standard_packet: '\x00' is no payload
request_payload(ubx_payload) ==
    IF ubx_payload.t = "str" /\ ubx_payload.v = <<0>> THEN PayloadNone ELSE ubx_payload

\* the test that guards set_packet(..., None) and send_message
request_clears(a, auto) ==
    ~(auto[<<a.cls, a.msg>>] /\ request_payload(a.ubx_payload).t = "None")

\* wait_packet: a negative wait_time is 0
wait_packet_time(wait_time) == IF wait_time < 0 THEN 0 ELSE wait_time

\* what request_standard_packet returns for orig_packet
request_return(orig) ==
    IF orig = NoPacket THEN [kind |-> "returned", value |-> NoPacket]
    ELSE [kind |-> "returned", value |-> [orig EXCEPT !.nt = scale_packet(orig.nt)]]

\* an exception leaving request_standard_packet
request_raise(err_, at_) == [kind |-> "raised", err |-> err_, at |-> at_]

\* the key of a caller's call
KeyOf(c) == <<q_args[c].cls, q_args[c].msg>>

\* the call, up to the test of cls_ms_auto and of the payload
Request(c) ==
    /\ q_pc[c] = "idle"
    /\ \E a \in RequestArgs :
           /\ q_args' = [q_args EXCEPT ![c] = a]
           /\ q_pc' = [q_pc EXCEPT ![c] = IF request_clears(a, cls_ms_auto) THEN "clear"
                                          ELSE "wait"]
    /\ UNCHANGED <<pvars, repeat, mvars, cvars, uvars, rvars, packets, stores,
                   worker_exception_buffer, svars, written, orig_packet, cleared_at,
                   q_result>>

\* set_packet(cls_name, msg_name, None): msg_name in self.packets[cls_name]
SetPacketTest(c) ==
    /\ q_pc[c] = "clear"
    /\ IF packets[KeyOf(c)] # NoPacket
       THEN /\ q_pc' = [q_pc EXCEPT ![c] = "del"]
            /\ UNCHANGED cleared_at
       ELSE /\ q_pc' = [q_pc EXCEPT ![c] = "send"]
            /\ cleared_at' = [cleared_at EXCEPT ![c] = stores]
    /\ UNCHANGED <<pvars, repeat, mvars, cvars, uvars, rvars, packets, stores,
                   worker_exception_buffer, svars, written, q_args, orig_packet, q_result>>

\* set_packet(cls_name, msg_name, None): del self.packets[cls_name][msg_name]
SetPacketDel(c) ==
    /\ q_pc[c] = "del"
    /\ IF packets[KeyOf(c)] # NoPacket
       THEN /\ packets' = set_packet_del(packets, KeyOf(c))
            /\ cleared_at' = [cleared_at EXCEPT ![c] = stores]
            /\ q_pc' = [q_pc EXCEPT ![c] = "send"]
            /\ UNCHANGED q_result
       ELSE /\ q_result' = [q_result EXCEPT ![c] = request_raise("KeyError", "set_packet")]
            /\ q_pc' = [q_pc EXCEPT ![c] = "done"]
            /\ UNCHANGED <<packets, cleared_at>>
    /\ UNCHANGED <<pvars, repeat, mvars, cvars, uvars, rvars, stores,
                   worker_exception_buffer, svars, written, q_args, orig_packet>>

\* self.send_message(cls_name, msg_name, ubx_payload)
SendMessage(c) ==
    /\ q_pc[c] = "send"
    /\ written' = Append(written, send_message(q_args[c].cls, q_args[c].msg,
                                               request_payload(q_args[c].ubx_payload)))
    /\ q_pc' = [q_pc EXCEPT ![c] = "wait"]
    /\ UNCHANGED <<pvars, repeat, mvars, cvars, uvars, rvars, packets, stores,
                   worker_exception_buffer, svars, q_args, orig_packet, cleared_at, q_result>>

\* one test of the while-loop of wait_packet and, the entry missing, the
\* sleep and the test of the elapsed time
WaitPacket(c) ==
    /\ q_pc[c] = "wait"
    /\ IF packets[KeyOf(c)] # NoPacket
       THEN q_pc' = [q_pc EXCEPT ![c] = "ret"]
       ELSE \E elapsed \in BOOLEAN :
                /\ wait_packet_time(q_args[c].wait_time) = 0 => elapsed
                /\ q_pc' = [q_pc EXCEPT ![c] = IF elapsed THEN "ret" ELSE "wait"]
    /\ UNCHANGED <<pvars, repeat, mvars, cvars, uvars, rvars, packets, stores,
                   worker_exception_buffer, svars, written, q_args, orig_packet, cleared_at,
                   q_result>>

\* the return of wait_packet: msg_name in self.packets[cls_name]
WaitReturnTest(c) ==
    /\ q_pc[c] = "ret"
    /\ IF packets[KeyOf(c)] # NoPacket
       THEN /\ q_pc' = [q_pc EXCEPT ![c] = "get"]
            /\ UNCHANGED orig_packet
       ELSE /\ q_pc' = [q_pc EXCEPT ![c] = "exc"]
            /\ orig_packet' = [orig_packet EXCEPT ![c] = NoPacket]
    /\ UNCHANGED <<pvars, repeat, mvars, cvars, uvars, rvars, packets, stores,
                   worker_exception_buffer, svars, written, q_args, cleared_at, q_result>>

\* the return of wait_packet: self.packets[cls_name][msg_name]
WaitReturnGet(c) ==
    /\ q_pc[c] = "get"
    /\ IF packets[KeyOf(c)] # NoPacket
       THEN /\ orig_packet' = [orig_packet EXCEPT ![c] = packets[KeyOf(c)]]
            /\ q_pc' = [q_pc EXCEPT ![c] = "exc"]
            /\ UNCHANGED q_result
       ELSE /\ q_result' = [q_result EXCEPT ![c] = request_raise("KeyError", "wait_packet")]
            /\ q_pc' = [q_pc EXCEPT ![c] = "done"]
            /\ UNCHANGED orig_packet
    /\ UNCHANGED <<pvars, repeat, mvars, cvars, uvars, rvars, packets, stores,
                   worker_exception_buffer, svars, written, q_args, cleared_at>>

\* len(self.worker_exception_buffer) > 0 and, the buffer empty, the return
ExceptionTest(c) ==
    /\ q_pc[c] = "exc"
    /\ IF Len(worker_exception_buffer) > 0
       THEN /\ q_pc' = [q_pc EXCEPT ![c] = "pop"]
            /\ UNCHANGED q_result
       ELSE /\ q_result' = [q_result EXCEPT ![c] = request_return(orig_packet[c])]
            /\ q_pc' = [q_pc EXCEPT ![c] = "done"]
    /\ UNCHANGED <<pvars, repeat, mvars, cvars, uvars, rvars, packets, stores,
                   worker_exception_buffer, svars, written, q_args, orig_packet, cleared_at>>

\* err = self.worker_exception_buffer.popleft(); raise err[1]
ExceptionRaise(c) ==
    /\ q_pc[c] = "pop"
    /\ IF worker_exception_buffer # <<>>
       THEN /\ worker_exception_buffer' = Tail(worker_exception_buffer)
            /\ q_result' = [q_result EXCEPT
                               ![c] = request_raise(Head(worker_exception_buffer).kind,
                                                    "reader")]
       ELSE /\ q_result' = [q_result EXCEPT ![c] = request_raise("IndexError", "popleft")]
            /\ UNCHANGED worker_exception_buffer
    /\ q_pc' = [q_pc EXCEPT ![c] = "done"]
    /\ UNCHANGED <<pvars, repeat, mvars, cvars, uvars, rvars, packets, stores, svars,
                   written, q_args, orig_packet, cleared_at>>

\* stop(): self.stopping = True
StopCall ==
    /\ s_pc = "idle"
    /\ stopping' = TRUE
    /\ s_pc' = "join"
    /\ UNCHANGED <<pvars, repeat, mvars, cvars, uvars, rvars, packets, stores,
                   worker_exception_buffer, written, q_pc, q_args, orig_packet, cleared_at,
                   q_result>>

\* stop(): self.thread.join() returns once the reader thread has ended
StopJoin ==
    /\ s_pc = "join"
    /\ r_pc = "stopped"
    /\ s_pc' = "done"
    /\ UNCHANGED <<pvars, repeat, mvars, cvars, uvars, rvars, packets, stores,
                   worker_exception_buffer, stopping, written, q_pc, q_args, orig_packet,
                   cleared_at, q_result>>

\* an NMEA line: '$', a character, CR LF
NmeaLine == <<36, 65, 13, 10>>

\* the bytes the port delivers to the driver
GpsStreams ==
    { <<>>,
      PREFIX \o GoodBody(1, 1, <<7>>),
      PREFIX \o GoodBody(9, 1, <<3>>),
      PREFIX \o <<1, 1>>,
      SYNC \o GoodBody(1, 1, <<7>>),
      NmeaLine \o PREFIX \o GoodBody(1, 1, <<7>>) \o <<36, 65>> }

InitGpsSpec ==
    /\ InitSchema
    /\ stream \in GpsStreams
    /\ InitParser
    /\ InitReaders
    /\ InitCalls
    /\ endless = FALSE
    /\ InitGps

\* the steps of the reader thread
NextReader ==
    \/ ReaderRead
    \/ ReaderNmea
    \/ ReaderReceive
    \/ ReadHeader
    \/ ReadPayload
    \/ ReadChecksum
    \/ ReaderParsed

NextGps ==
    \/ NextReader
    \/ SetPacket
    \/ \E c \in Callers : Request(c)
    \/ \E c \in Callers : SetPacketTest(c)
    \/ \E c \in Callers : SetPacketDel(c)
    \/ \E c \in Callers : SendMessage(c)
    \/ \E c \in Callers : WaitPacket(c)
    \/ \E c \in Callers : WaitReturnTest(c)
    \/ \E c \in Callers : WaitReturnGet(c)
    \/ \E c \in Callers : ExceptionTest(c)
    \/ \E c \in Callers : ExceptionRaise(c)

SpecGps == InitGpsSpec /\ [][NextGps]_vars

\* the sources of the stop() runs: those of GpsStreams, and sources that
\* deliver their bytes again and again
InitStop ==
    /\ InitSchema
    /\ \/ stream \in GpsStreams /\ endless = FALSE
       \/ stream \in {<<65>>, NmeaLine, <<36, 65>>} /\ endless = TRUE
    /\ InitParser
    /\ InitReaders
    /\ InitCalls
    /\ InitGps

NextStop ==
    \/ NextReader
    \/ StopCall
    \/ StopJoin

\* the reader thread keeps being scheduled and every read of the port returns
FairReader ==
    /\ WF_vars(ReaderRead)
    /\ WF_vars(ReaderNmea)
    /\ WF_vars(ReaderReceive)
    /\ WF_vars(ReadHeader)
    /\ WF_vars(ReadPayload)
    /\ WF_vars(ReadChecksum)
    /\ WF_vars(ReaderParsed)

SpecStop == InitStop /\ [][NextStop]_vars /\ FairReader

(***************************************************************************)
(* The wire format, as the properties below read it off the byte source:   *)
(* h is the number of bytes before the first header byte.                  *)
(***************************************************************************)
HasHeaderAt(h) == h >= 0 /\ Len(stream) >= h + 4
LengthAt(h) == stream[h + 3] + 256 * stream[h + 4]
RegisteredAt(h) ==
    /\ stream[h + 1] \in DOMAIN Registry
    /\ stream[h + 2] \in DOMAIN Registry[stream[h + 1]].messages
FrameEnd(h) == h + 4 + LengthAt(h) + 2
CompleteAt(h) == HasHeaderAt(h) /\ Len(stream) >= FrameEnd(h)
PayloadAt(h) == SubSeq(stream, h + 5, h + 4 + LengthAt(h))
\* ck_a, ck_b over class id, message id, length and payload
WireCkAt(h) == FletcherLoop(SubSeq(stream, h + 1, h + 4 + LengthAt(h)), <<0, 0>>)
ReceivedCkAt(h) == SubSeq(stream, FrameEnd(h) - 1, FrameEnd(h))
\* the record of the frame's payload under the schema of its message
RecordAt(h) == Cls_parse(Registry[stream[h + 1]], stream[h + 2], PayloadAt(h))
\* a complete frame of a registered message, payload length matching the
\* schema, checksum correct
WellFormedAt(h) ==
    /\ CompleteAt(h)
    /\ RegisteredAt(h)
    /\ ReceivedCkAt(h) = WireCkAt(h)
    /\ RecordAt(h).kind = "Record"
SyncAt(p) == Len(stream) >= p + 2 /\ SubSeq(stream, p + 1, p + 2) = SYNC

(***************************************************************************)
(* Properties of Parser.receive_from (specification Spec).                 *)
(***************************************************************************)
\* C1: on a source holding the sync pair and then a well-formed frame of a
\* registered message, receive_from is never left without data and what it
\* returns is the record of the frame's payload.
C1_WellFormedFrameDecoded ==
    (pc # "idle" /\ ~skippreamble /\ start = 0 /\ SyncAt(0) /\ WellFormedAt(2))
        => /\ empty_reads = 0
           /\ pc = "done" => result = RecordAt(2)

\* C2: a call that read a complete frame of a registered message whose two
\* received checksum bytes differ from (ck_a, ck_b) over header and payload
\* ends in the ValueError of the checksum test, returns no record and has
\* not called the message decode.
C2_BadChecksumRejected ==
    (pc = "done" /\ CompleteAt(hdr) /\ RegisteredAt(hdr) /\ ReceivedCkAt(hdr) # WireCkAt(hdr))
        => /\ result = [kind |-> "ValueError", at |-> "checksum"]
           /\ ~dispatched

C2_Witness ==
    /\ pc = "done"
    /\ CompleteAt(hdr) /\ RegisteredAt(hdr) /\ ReceivedCkAt(hdr) # WireCkAt(hdr)
    /\ RecordAt(hdr).kind = "Record"
    /\ result.kind = "ValueError"
    /\ pos = FrameEnd(hdr)

\* C3: a call with skippreamble = False whose read returned no byte before
\* the sync pair was seen has ended with a stream-closed error.
C3_EndOfDataEndsCall ==
    (pc # "idle" /\ ~skippreamble /\ hdr < 0 /\ empty_reads > 0)
        => pc = "done" /\ result.kind = "StreamClosed"

\* C4: a lenient call that returns the skipped result for a complete frame
\* of an unregistered message has consumed the frame's payload and checksum:
\* the source is at the first byte after the frame.
C4_SkippedFrameConsumed ==
    (pc = "done" /\ result.kind = "skipped" /\ CompleteAt(hdr))
        => pos = FrameEnd(hdr)

\* C5: a call that read the header of an unregistered (class id, message id),
\* the class unknown or only the message id unknown, returns the skipped
\* result in lenient mode and raises the unknown-message ValueError in strict
\* mode, in strict mode having read nothing after the 4 header bytes.
C5_UnknownMessagePolicy ==
    (pc = "done" /\ HasHeaderAt(hdr) /\ ~RegisteredAt(hdr))
        => IF ignoreunsupported
           THEN result = [kind |-> "skipped"]
           ELSE result = [kind |-> "ValueError", at |-> "header"] /\ pos = hdr + 4

C5_Witness ==
    /\ pc = "done"
    /\ HasHeaderAt(hdr) /\ ~RegisteredAt(hdr)
    /\ stream[hdr + 1] \in DOMAIN Registry
    /\ ~ignoreunsupported
    /\ result.kind = "ValueError"
    /\ CompleteAt(hdr) /\ LengthAt(hdr) > 0
    /\ \E i \in 1..Len(returned) :
          /\ returned[i].ignoreunsupported
          /\ returned[i].result.kind = "skipped"

\* the source holds two well-formed frames back to back, each after its sync pair
TwoFrames ==
    /\ SyncAt(0) /\ WellFormedAt(2)
    /\ SyncAt(FrameEnd(2)) /\ WellFormedAt(FrameEnd(2) + 2)
    /\ Len(stream) = FrameEnd(FrameEnd(2) + 2)

\* header position of the i-th of the two frames
FrameHdr(i) == IF i = 1 THEN 2 ELSE FrameEnd(2) + 2

\* C6: on a source holding well-formed frames back to back, the i-th call
\* returns the record of the i-th frame and has consumed the source up to
\* that frame's last checksum byte; no call runs out of data before its frame.
C6_OneRecordPerFrameInOrder ==
    (TwoFrames /\ ~skippreamble /\ \A i \in 1..Len(returned) : ~returned[i].skippreamble)
        => /\ \A i \in 1..Len(returned) :
                 i <= 2 => /\ returned[i].result = RecordAt(FrameHdr(i))
                           /\ returned[i].end = FrameEnd(FrameHdr(i))
           /\ (pc # "idle" /\ Len(returned) < 2) => empty_reads = 0

\* C7: on a source holding garbage bytes, the sync pair and a well-formed
\* frame, the first call with skippreamble = False is never left without
\* data and returns the record of the frame, the one returned without the
\* garbage.
C7_GarbageSkipped ==
    \A g \in 1..Len(stream) :
        (pc # "idle" /\ ~skippreamble /\ start = 0 /\ ~SyncAt(0)
         /\ SyncAt(g) /\ WellFormedAt(g + 2) /\ Len(stream) = FrameEnd(g + 2))
            => /\ empty_reads = 0
               /\ pc = "done" => result = RecordAt(g + 2)

\* C8: a call whose source ends before 4 header bytes, before the payload
\* bytes the header of a registered message announces, or before 2 checksum
\* bytes, ends in the IOError of that stage and returns no record.
C8_TruncationIsIOError ==
    (pc = "done" /\ hdr >= 0)
        => /\ Len(stream) < hdr + 4 => result = [kind |-> "IOError", at |-> "header"]
           /\ (HasHeaderAt(hdr) /\ RegisteredAt(hdr) /\ Len(stream) < hdr + 4 + LengthAt(hdr))
                 => result = [kind |-> "IOError", at |-> "payload"]
           /\ (HasHeaderAt(hdr) /\ RegisteredAt(hdr) /\ Len(stream) >= hdr + 4 + LengthAt(hdr)
               /\ Len(stream) < FrameEnd(hdr))
                 => result = [kind |-> "IOError", at |-> "checksum"]

C8_Witness ==
    /\ pc = "done"
    /\ HasHeaderAt(hdr) /\ RegisteredAt(hdr)
    /\ LengthAt(hdr) >= 1
    /\ Len(stream) = FrameEnd(hdr) - 1
    /\ result = [kind |-> "IOError", at |-> "checksum"]
\* C17: the checksum a call computes for a complete frame of a registered
\* message is the pair (ck_a, ck_b) of the recurrence ck_a = (ck_a + b) mod
\* 256, ck_b = (ck_b + ck_a) mod 256 from (0, 0), taken over the 4 header
\* bytes followed by the payload, both values within 0..255.
C17_ChecksumPair ==
    (pc = "done" /\ CompleteAt(hdr) /\ RegisteredAt(hdr))
        => /\ checksum_cal = WireCkAt(hdr)
           /\ Len(checksum_cal) = 2
           /\ \A i \in 1..Len(checksum_cal) : checksum_cal[i] \in 0..255
(***************************************************************************)
(* The wire size of a schema, as the properties below read it: the sum of  *)
(* the sizes of its elements, nothing between them.                        *)
(***************************************************************************)
RECURSIVE PackedSize(_)
PackedSize(fmt) ==
    IF fmt = <<>> THEN 0 ELSE fmt[1].n * FmtSize(fmt[1].c) + PackedSize(Tail(fmt))

\* the RepeatedBlock of a message that has one
BlockOf(m) == m.fields[CHOOSE i \in 1..Len(m.fields) : m.fields[i].d = "RepeatedBlock"]
\* R: the wire size of one repetition
WireR(m) == PackedSize(InnerFmt(BlockOf(m).fields))
\* B: the wire size of the descriptors outside the block
WireB(m) == PackedSize(InnerFmt(SelectSeq(m.fields, LAMBDA f : f.d # "RepeatedBlock")))
\* the entries of the RepeatedBlock field of a record
Entries(m, r) ==
    Len(r.nt[CHOOSE i \in 1..Len(r.nt) : r.nt[i][1] = BlockOf(m).name][2])
\* the message is made of pad bytes and U1/I1 fields only
OneByteInts(m) ==
    LET ok(f) == f.d = "PadByte" \/ (f.d = "Field" /\ f.type \in {"U1", "I1"} /\ f.len >= 1)
    IN  \A i \in 1..Len(m.fields) :
            IF m.fields[i].d = "RepeatedBlock"
            THEN \A j \in 1..Len(m.fields[i].fields) : ok(m.fields[i].fields[j])
            ELSE ok(m.fields[i])

LengthMismatch == [kind |-> "ValueError", at |-> "parse"]

(***************************************************************************)
(* Properties of Message.parse (specification SpecMsg).                    *)
(***************************************************************************)
\* C9: for a message with a RepeatedBlock of unit size R > 0 and base size
\* B, parse of a payload of length L returns a record exactly when
\* L = B + n * R for some n >= 1, the block then holding n entries, and
\* raises the length-mismatch ValueError for every other L.
C9_RepeatResolution ==
    (m_pc = "done" /\ HasRepeatedBlock(m_msg) /\ WireR(m_msg) > 0)
        => LET L == Len(m_payload)
               B == WireB(m_msg)
               R == WireR(m_msg)
           IN  IF L >= B + R /\ (L - B) % R = 0
               THEN /\ m_result.kind = "Record"
                    /\ Entries(m_msg, m_result) = (L - B) \div R
               ELSE m_result = LengthMismatch

C11_FixedSizeExact ==
    (m_pc = "done" /\ ~HasRepeatedBlock(m_msg))
        => /\ IF Len(m_payload) = PackedSize(InnerFmt(m_msg.fields))
              THEN m_result.kind = "Record"
              ELSE m_result = LengthMismatch
           /\ m_msg = FIX => PackedSize(InnerFmt(m_msg.fields)) = 3

\* C13: when Message.parse has finished, with a record or with an
\* exception, the repeat attribute of every RepeatedBlock has the value it
\* had when the call began.
C13_SchemaUnchanged == m_pc = "done" => repeat = repeat_before

\* C14: whatever was decoded before on the same schema objects, a
\* Message.parse call returns what the decode of the same payload on freshly
\* constructed schema objects (repeat = 0) returns.
C14_SequentialDecodesIndependent ==
    m_pc = "done" => m_result = Message_parse(m_msg, m_payload)

C14_Witness ==
    /\ m_pc = "done"
    /\ parses = 2
    /\ HasRepeatedBlock(m_msg)
    /\ repeat_before[m_msg.name] > repeat[m_msg.name]
    /\ m_result.kind = "Record"
    /\ Entries(m_msg, m_result) = 1

(***************************************************************************)
(* Properties of concurrent Message.parse calls (specification SpecConc).  *)
(***************************************************************************)
\* C12: when two readers decode the same message at the same time, with
\* payloads of different lengths that each decode when run alone, every
\* reader that has finished has the record its decode returns when run alone.
C12_ConcurrentDecodesIndependent ==
    (/\ Len(t_payload[1]) # Len(t_payload[2])
     /\ \A r \in Readers : Message_parse(c_msg, t_payload[r]).kind = "Record")
        => \A r \in Readers :
               t_pc[r] = "done" => t_result[r] = Message_parse(c_msg, t_payload[r])

(***************************************************************************)
(* Properties of the constructors, Flag.parse and the checksum             *)
(* (specification SpecCalls).                                              *)
(***************************************************************************)
\* the number of RepeatedBlock descriptors of a list
BlockCount(fields) == Cardinality({ i \in 1..Len(fields) : fields[i].d = "RepeatedBlock" })

\* C15: the construction of a RepeatedBlock whose inner descriptors have
\* total wire size zero raises a ValueError, and no constructed Message
\* holds a RepeatedBlock with a zero-size unit.
C15_ZeroSizeUnitRejected ==
    /\ (u_call.op = "RepeatedBlock" /\ PackedSize(InnerFmt(u_call.fields)) = 0)
           => u_result.kind = "ValueError"
    /\ (u_call.op = "Message" /\ u_result.kind = "object")
           => \A i \in 1..Len(u_result.obj.fields) :
                  u_result.obj.fields[i].d = "RepeatedBlock"
                      => PackedSize(InnerFmt(u_result.obj.fields[i].fields)) > 0

\* the word (1 << k) - 1
LowOnes(k) == [i \in 1..WordBits |-> IF i <= k THEN 1 ELSE 0]

\* C16: for a Flag with 0 <= start < stop <= 32 and a word w of 32 bits,
\* Flag.parse returns (w >> start) & ((1 << (stop - start)) - 1); start = 2,
\* stop = 5 on 0x2C gives 3.
C16_FlagLaw ==
    (u_call.op = "Flag.parse" /\ u_call.flag.start < u_call.flag.stop)
        => /\ u_result = <<u_call.flag.name,
                           BitAnd(ShiftRight(u_call.value, u_call.flag.start),
                                  LowOnes(u_call.flag.stop - u_call.flag.start))>>
           /\ (u_call.flag.start = 2 /\ u_call.flag.stop = 5 /\ u_call.value = Bin(44))
                 => Num(u_result[2]) = 3

C16_Witness ==
    /\ u_call.op = "Flag.parse"
    /\ u_call.flag.start = 2 /\ u_call.flag.stop = 5
    /\ u_call.value = Bin(44)
    /\ Num(u_result[2]) = 3

\* C18: the checksum of a byte string and the checksum of the same string
\* with one bit of one byte flipped differ.
C18_BitFlipChangesChecksum ==
    u_call.op = "checksum" => u_result[1] # u_result[2]

C18_Witness ==
    /\ u_call.op = "checksum"
    /\ Len(u_call.payload) = 3
    /\ u_call.i = 1 /\ u_call.k = 7
    /\ u_result[1] # u_result[2]

\* the width in bytes a BitField type stands for
WidthOf(type_) == CASE type_ = "X1" -> 1 [] type_ = "X2" -> 2 [] OTHER -> 4

\* C19: the constructor raises a ValueError, and so returns no object, for
\* a Field with an invalid kind, a Flag with start < 0, start > stop or
\* stop > 32, a BitField whose type is not X1, X2 or X4 or one of whose Flags
\* has stop > width * 8, and a Message or Cls with an id outside 0..255.
C19_ValidationRaises ==
    /\ (u_call.op = "Field" /\ u_call.type \notin DOMAIN Field__types__)
           => u_result.kind = "ValueError"
    /\ (u_call.op = "Flag"
        /\ (u_call.start < 0 \/ u_call.start > u_call.stop \/ u_call.stop > 32))
           => u_result.kind = "ValueError"
    /\ (u_call.op = "BitField"
        /\ (\/ u_call.type \notin {"X1", "X2", "X4"}
            \/ \E i \in 1..Len(u_call.subfields) :
                   u_call.subfields[i].stop > WidthOf(u_call.type) * 8))
           => u_result.kind = "ValueError"
    /\ (u_call.op \in {"Message", "Cls"} /\ u_call.id \notin 0..255)
           => u_result.kind = "ValueError"

C19_Witness ==
    /\ u_call.op = "BitField"
    /\ u_call.type = "X1"
    /\ Len(u_call.subfields) = 2
    /\ u_call.subfields[1].stop = 8
    /\ u_call.subfields[2].stop = 9
    /\ u_result = Raises("ValueError", "BitField")

\* C20: a constructed Message has at most one RepeatedBlock among its
\* descriptors, and the construction of a Message from a list holding two
\* or more RepeatedBlocks raises a ValueError.
C20_AtMostOneRepeatedBlock ==
    u_call.op = "Message"
        => /\ u_result.kind = "object" => BlockCount(u_result.obj.fields) <= 1
           /\ BlockCount(u_call.fields) >= 2 => u_result.kind = "ValueError"

C20_Witness ==
    /\ u_call.op = "Message"
    /\ u_call.id = 0
    /\ BlockCount(u_call.fields) = 2
    /\ Len(u_call.fields) = 3
    /\ u_result = Raises("ValueError", "Message")


\* C21: every constructed Field has an element count of at least 1: the
\* construction of a Field with a count below 1 raises a ValueError, and
\* Field.parse consumes exactly the values that the Field's format produces.
C21_FieldCountAtLeastOne ==
    /\ (u_call.op = "Field" /\ u_call.len < 1) => u_result.kind = "ValueError"
    /\ (u_call.op = "Field" /\ u_result.kind = "object") => u_result.obj.len >= 1
    /\ u_call.op = "Field.parse" => u_result.cur = Len(u_call.vals)

\* C22: for every kind of Field.__types__ and every count of at least 1,
\* Field.parse raises nothing and returns (name, value): the one value
\* when the count is 1, the sequence of the count values in order
\* otherwise, and for S the one string without its trailing NULs.
C22_EveryKindParses ==
    (u_call.op = "Field.parse" /\ u_call.field.len >= 1)
        => /\ u_result.err = ""
           /\ Len(u_result.out) = 1
           /\ u_result.out[1][1] = u_call.field.name
           /\ u_call.field.type = "S"
                  => u_result.out[1][2] = RStripNul(u_call.vals[1])
           /\ (u_call.field.type # "S" /\ u_call.field.len = 1)
                  => u_result.out[1][2] = u_call.vals[1]
           /\ (u_call.field.type # "S" /\ u_call.field.len > 1)
                  => u_result.out[1][2] = u_call.vals

\* C24: the repeat-count search of Message.parse ends, for every message
\* and payload length, with a resolved count or with the length-mismatch
\* ValueError: while the loop runs the count never exceeds the payload
\* length, the most a search that ends can need since every repetition
\* that has a size adds at least one byte.
C24_RepeatSearchTerminates ==
    /\ m_pc = "loop" => RepeatOf(m_msg, repeat) <= Len(m_payload)
    /\ m_pc # "idle"
           => RepeatSearch(m_msg, Len(m_payload), 0).kind \in {"found", "ValueError"}

\* the bytes of a ubx_payload argument
PayloadBytes(ubx_payload) ==
    CASE ubx_payload.t = "None" -> <<>>
      [] ubx_payload.t = "int" -> <<ubx_payload.v>>
      [] OTHER -> ubx_payload.v

\* C26: what send_message writes for a registered (class, message) and a
\* payload is the sync pair, class id, message id, length low and high
\* byte, the payload and the two checksum bytes over everything after the
\* sync pair, and the receive_from call that reads it from the start
\* dispatches that payload and returns its record.
C26_SentFrameAccepted ==
    \A a \in SendArgs :
        stream = send_message(a.cls, a.msg, a.payload)
            => /\ stream = SYNC \o GoodBody(cls_ms_class(a.cls),
                                            cls_ms_message(a.cls, a.msg),
                                            PayloadBytes(a.payload))
               /\ (pc = "done" /\ ~skippreamble /\ start = 0)
                      => /\ dispatched
                         /\ result = Cls_parse(Registry[cls_ms_class(a.cls)],
                                               cls_ms_message(a.cls, a.msg),
                                               PayloadBytes(a.payload))

(***************************************************************************)
(* Properties of UbloxGps (specifications SpecGps and SpecStop).           *)
(***************************************************************************)
\* a caller whose call has cleared the cache entry, or would have
Clearing(c) == q_pc[c] # "idle" /\ request_clears(q_args[c], cls_ms_auto)

\* C23: a request_standard_packet call that clears the cache entry returns
\* only a packet stored after it cleared the entry, and returns None when
\* no packet was stored after the clear.
C23_FreshPacketOrNone ==
    \A c \in Callers :
        (Clearing(c) /\ q_pc[c] = "done")
            => /\ (q_result[c].kind = "returned" /\ q_result[c].value # NoPacket)
                      => q_result[c].value.at > cleared_at[c]
               /\ stores = cleared_at[c]
                      => q_result[c] = [kind |-> "returned", value |-> NoPacket]

\* C25: when the reader thread calls receive_from, the read of the
\* iteration returned a byte (no call follows a read that timed out) and
\* the two bytes read last are the sync pair 0xB5 0x62.
C25_ReceiveOnlyAfterSync ==
    (r_pc = "parse" /\ pc = "idle")
        => /\ got # <<>>
           /\ Tail_n(c2, 2) = SYNC

\* C27: no request_standard_packet call of the two callers ends in a
\* KeyError, whether raised by set_packet or by wait_packet.
C27_NoKeyError ==
    \A c \in Callers :
        q_pc[c] = "done" => ~(q_result[c].kind = "raised" /\ q_result[c].err = "KeyError")

\* C28: a call made with rethrow_thread_exception = False never takes an
\* exception out of worker_exception_buffer and never raises an exception
\* that the reader thread recorded.
C28_RethrowOnlyWhenAsked ==
    \A c \in Callers :
        (q_pc[c] # "idle" /\ ~q_args[c].rethrow_thread_exception)
            => /\ q_pc[c] # "pop"
               /\ q_pc[c] = "done"
                      => ~(q_result[c].kind = "raised" /\ q_result[c].at = "reader")

\* C29: once stop() has set self.stopping the reader thread eventually
\* leaves its loop and ends, provided it keeps running and every read of
\* the port returns.
C29_StopEndsReader == stopping ~> (r_pc = "stopped")
====
